---- MODULE Spec2Model ----
(***************************************************************************)
(* A model of python-whois (richardpenman/whois):                          *)
(*   - the protocol client NICClient (src/whois/whois.py): whois_lookup,   *)
(*     choose_server, findwhois_iana, findwhois_server and the recursive   *)
(*     whois method, run against nondeterministic servers;                 *)
(*   - the library entry point whois() (src/whois/__init__.py);            *)
(*   - the record extraction WhoisEntry.load / parse / _preprocess         *)
(*     (src/whois/parser.py).                                              *)
(*                                                                         *)
(* A text is a sequence of lines; a line is a record [label, val]: the     *)
(* literal a field pattern searches for and the rest of the line (what the *)
(* pattern's group captures).  Servers are modelled as sending whole       *)
(* lines.                                                                  *)
(***************************************************************************)
EXTENDS Integers, Sequences, FiniteSets, TLC

\* ------------------------------------------------------------------ bounds

\* Python's recursion limit, counted in frames of NICClient.whois.
RecursionLimit == 3
\* Calls made on one NICClient (one process) in a behaviour.
MaxLookups == 2

\* ------------------------------------------------------- program constants

WHOIS_RECURSE == 1
WHOIS_QUICK == 2
\* The default of NICClient.whois's timeout parameter.
DefaultTimeout == 10
\* The timeout findwhois_iana sets on its socket.
IanaTimeout == 10

NoneVal == "None"

ANICHOST == "whois.arin.net"
DENICHOST == "whois.denic.de"
DK_HOST == "whois.dk-hostmaster.dk"
HR_HOST == "whois.dns.hr"
IANAHOST == "whois.iana.org"
JP_HOST == "whois.jprs.jp"
NICHOST == "whois.crsnic.net"
NORIDHOST == "whois.norid.no"
PANDIHOST == "whois.pandi.or.id"
PPUA_HOST == "whois.pp.ua"
RNICHOST == "whois.ripe.net"
LNICHOST == "whois.lacnic.net"
PNICHOST == "whois.apnic.net"
BNICHOST == "whois.registro.br"
QNICHOST_TAIL == ".whois-servers.net"

ip_whois == <<LNICHOST, RNICHOST, PNICHOST, BNICHOST, PANDIHOST>>

\* Hosts outside the client's table: the registries IANA names for "com" and
\* for "xn--90a3ac", a registrar's server, and a country host built as
\* country + QNICHOST_TAIL.
VerisignHost == "whois.verisign-grs.com"
RnidsHost == "whois.rnids.rs"
RegistrarHost == "whois.registrar.example"
RuCountryHost == "ru.whois-servers.net"

\* options["country"] + NICClient.QNICHOST_TAIL
CountryHost(country) ==
  CASE country = "ru" -> RuCountryHost
    [] OTHER -> QNICHOST_TAIL

\* hostname.endswith(".jp") and hostname.endswith(NICClient.QNICHOST_TAIL)
EndsWithJp(host) == host \in {JP_HOST}
EndsWithQnicTail(host) == host \in {RuCountryHost, QNICHOST_TAIL}

\* ------------------------------------------------------------------- data

\* The domains a caller asks about, and their dot-separated labels after
\* IDNA encoding (domain.encode("idna").decode("utf-8").split(".")).
Domains ==
  { "example.com", "example.de", "localhost", "xn--d1aholi.xn--90a3ac",
    "example.id", "example.android" }

\* The domains whois_lookup is called for.
LookupDomains == {"example.com", "example.de", "localhost"}

Labels(domain) ==
  CASE domain = "example.com" -> <<"example", "com">>
    [] domain = "example.de" -> <<"example", "de">>
    [] domain = "localhost" -> <<"localhost">>
    [] domain = "example.cl" -> <<"example", "cl">>
    [] domain = "example.id" -> <<"example", "id">>
    [] domain = "example.android" -> <<"example", "android">>
    [] domain = "example.pl" -> <<"example", "pl">>
    [] domain = "xn--d1aholi.xn--90a3ac" -> <<"xn--d1aholi", "xn--90a3ac">>
    [] OTHER -> <<domain>>

LastLabel(domain) == Labels(domain)[Len(Labels(domain))]

\* str.endswith on one label.
LabelEndsWith(label, suffix) ==
  \/ label = suffix
  \/ /\ suffix = "id"
     /\ label \in {"android", "paid"}

\* str.lower of the values that occur in texts.
Lower(v) ==
  CASE v = "GoDaddy" -> "godaddy"
    [] v = "GODADDY" -> "godaddy"
    [] v = "NameCheap" -> "namecheap"
    [] v = "EXAMPLE.COM" -> "example.com"
    [] v = "EXAMPLE.DE" -> "example.de"
    [] v = "LOCALHOST" -> "localhost"
    [] v = "NS1.EXAMPLE" -> "ns1.example"
    [] v = "WWW" -> "www"
    [] v = "Google" -> "google"
    [] OTHER -> v

\* str.strip of the values that occur in texts.
Strip(v) == IF v = " " THEN "" ELSE v

Line(label, val) == [label |-> label, val |-> val]

\* The servers' notice asking for the "=" query form.
EqxLine == Line("notice", "with \"=xxx\"")

\* "Socket not responding: {}".format(exc)
SocketErrorText(exc) == <<Line("Socket not responding", exc)>>

SocketErrors == {"timed out", "refused"}

\* ------------------------------------------------------ NICClient helpers

\* The elif chain of choose_server on the TLD, in source order (the first
\* entry for a TLD is the one that returns).  The domain is IDNA-encoded
\* before the chain, so the comparisons with non-ASCII literals never hold
\* and are left out.
StaticEntries ==
  <<
     <<"ai", "whois.nic.ai">>,
     <<"app", "whois.nic.google">>,
     <<"ar", "whois.nic.ar">>,
     <<"bw", "whois.nic.net.bw">>,
     <<"by", "whois.cctld.by">>,
     <<"ca", "whois.ca.fury.ca">>,
     <<"chat", "whois.nic.chat">>,
     <<"cl", "whois.nic.cl">>,
     <<"cr", "whois.nic.cr">>,
     <<"de", "whois.denic.de">>,
     <<"dev", "whois.nic.google">>,
     <<"dk", "whois.dk-hostmaster.dk">>,
     <<"do", "whois.nic.do">>,
     <<"games", "whois.nic.games">>,
     <<"goog", "whois.nic.google">>,
     <<"google", "whois.nic.google">>,
     <<"group", "whois.namecheap.com">>,
     <<"hk", "whois.hkirc.hk">>,
     <<"hn", "whois.nic.hn">>,
     <<"ist", "whois.afilias-srs.net">>,
     <<"jobs", "whois.nic.jobs">>,
     <<"jp", "whois.jprs.jp">>,
     <<"kz", "whois.nic.kz">>,
     <<"lat", "whois.nic.lat">>,
     <<"li", "whois.nic.li">>,
     <<"live", "whois.nic.live">>,
     <<"lt", "whois.domreg.lt">>,
     <<"market", "whois.nic.market">>,
     <<"money", "whois.nic.money">>,
     <<"mx", "whois.mx">>,
     <<"nl", "whois.domain-registry.nl">>,
     <<"online", "whois.nic.online">>,
     <<"ooo", "whois.nic.ooo">>,
     <<"page", "whois.nic.page">>,
     <<"pe", "kero.yachay.pe">>,
     <<"website", "whois.nic.website">>,
     <<"za", "whois.registry.net.za">>,
     <<"ru", "whois.tcinet.ru">>,
     <<"bz", "whois.tcinet.ru">>,
     <<"city", "whois.tcinet.ru">>,
     <<"design", "whois.nic.design">>,
     <<"studio", "whois.nic.studio">>,
     <<"style", "whois.tcinet.ru">>,
     <<"su", "whois.tcinet.ru">>,
     <<"xn--p1acf", "whois.tcinet.ru">>,
     <<"direct", "whois.identitydigital.services">>,
     <<"group", "whois.identitydigital.services">>,
     <<"immo", "whois.identitydigital.services">>,
     <<"life", "whois.identitydigital.services">>,
     <<"fashion", "whois.dnrs.godaddy">>,
     <<"vip", "whois.dnrs.godaddy">>,
     <<"shop", "whois.nic.shop">>,
     <<"store", "whois.centralnic.com">>,
     <<"xn--d1acj3b", "whois.nic.xn--d1acj3b">>,
     <<"xn--80adxhks", "whois.registry.nic.xn--80adxhks">>,
     <<"xn--p1ai", "whois.registry.tcinet.ru">>,
     <<"xn--c1avg", "whois.publicinterestregistry.org">>,
     <<"ng", "whois.nic.net.ng">>,
     <<"xn--j1amh", "whois.dotukr.com">>,
     <<"tn", "whois.ati.tn">>,
     <<"sbs", "whois.nic.sbs">>,
     <<"sg", "whois.sgnic.sg">>,
     <<"site", "whois.nic.site">>
  >>

StaticIndex(tld) == {i \in DOMAIN StaticEntries : StaticEntries[i][1] = tld}

Min(S) == CHOOSE x \in S : \A y \in S : x <= y
Max(S) == CHOOSE x \in S : \A y \in S : y <= x

\* tld[0].isdigit()
FirstIsDigit(tld) == tld \in {"8"}

\* choose_server up to its call of findwhois_iana: a host, None, or the TLD
\* to ask IANA about.
choose_server(domain) ==
  LET labels == Labels(domain)
      last == labels[Len(labels)]
      tld == last
  IN  IF LabelEndsWith(last, "-NORID")
        THEN [kind |-> "host", host |-> NORIDHOST]
      ELSE IF LabelEndsWith(last, "id")
        THEN [kind |-> "host", host |-> PANDIHOST]
      ELSE IF LabelEndsWith(last, "hr")
        THEN [kind |-> "host", host |-> HR_HOST]
      ELSE IF /\ Len(labels) >= 3
              /\ labels[Len(labels) - 1] = "pp"
              /\ last = "ua"
        THEN [kind |-> "host", host |-> PPUA_HOST]
      ELSE IF Len(labels) < 2
        THEN [kind |-> "none", host |-> NoneVal]
      ELSE IF FirstIsDigit(tld)
        THEN [kind |-> "host", host |-> ANICHOST]
      ELSE IF StaticIndex(tld) # {}
        THEN [kind |-> "host", host |-> StaticEntries[Min(StaticIndex(tld))][2]]
      ELSE [kind |-> "iana", host |-> tld]

\* The registrar-specific server named in a response: the first
\* "Whois Server:" line after the first "Domain Name: <query>" line.
DomainNameMatches(line, query) ==
  /\ line.label = "Domain Name"
  /\ Lower(line.val) = Lower(query)

\* What "Whois Server: (.*?)\s" captures from the rest of the line.
ReferralCapture(val) == IF val = " " THEN "" ELSE val

HasSlash(val) == val \in {"whois.registrar.example/whois"}

Mentions(buf, host) == \E i \in DOMAIN buf : buf[i].val = host

findwhois_server(buf, hostname, query) ==
  LET doms == {i \in DOMAIN buf : DomainNameMatches(buf[i], query)}
      refs == {j \in DOMAIN buf :
                 /\ buf[j].label = "Whois Server"
                 /\ doms # {}
                 /\ j > Min(doms)}
      hits == {k \in DOMAIN ip_whois : Mentions(buf, ip_whois[k])}
  IN  IF refs # {}
        THEN LET nhost == ReferralCapture(buf[Min(refs)].val)
             IN  IF HasSlash(nhost) THEN NoneVal ELSE nhost
      ELSE IF hostname = ANICHOST /\ hits # {}
        THEN ip_whois[Min(hits)]
      ELSE NoneVal

\* The query sent as it is to every host.
QueryLineBare(hostname, query, many_results) == <<"", query, "", "\r\n">>

\* The line sent on the connection: query_bytes + b"\r\n".
QueryLine(hostname, query, many_results) ==
  IF hostname = DENICHOST
    THEN <<"-T dn,ace -C UTF-8 ", query, "", "\r\n">>
  ELSE IF hostname = DK_HOST
    THEN <<" --show-handles ", query, "", "\r\n">>
  ELSE IF EndsWithJp(hostname)
    THEN <<"", query, "/e", "\r\n">>
  ELSE IF EndsWithQnicTail(hostname) /\ many_results
    THEN <<"=", query, "", "\r\n">>
  ELSE <<"", query, "", "\r\n">>

\* flags & NICClient.WHOIS_RECURSE, flags & NICClient.WHOIS_QUICK,
\* flags |= NICClient.WHOIS_RECURSE on flags in 0..3.
HasRecurse(flags) == (flags \div WHOIS_RECURSE) % 2 = 1
HasQuick(flags) == (flags \div WHOIS_QUICK) % 2 = 1
SetRecurse(flags) == IF HasRecurse(flags) THEN flags ELSE flags + WHOIS_RECURSE

\* 'with "=xxx"' in response
HasEqx(response) == \E i \in DOMAIN response : response[i] = EqxLine

\* ---------------------------------------------------------------- servers

\* What a server may name in a "Whois Server:" line of its reply: another
\* host, the host being asked, a blank, or a host with a path.  The
\* registrar's server, which is asked second, names nobody or itself.
RefVals(hostname) ==
  IF hostname = RegistrarHost
    THEN {RegistrarHost}
    ELSE {RegistrarHost, hostname, " ", "whois.registrar.example/whois"}

RegistryBody ==
  <<Line("Registrar", "GoDaddy"), Line("Name Server", "ns1.example")>>

\* The registrar's own record: other values, or the registry's values in
\* another case and one more name server.
RegistrarBodies ==
  { <<Line("Registrar", "NameCheap"), Line("Name Server", "ns2.example")>>,
    <<Line("Registrar", "GODADDY"), Line("Name Server", "NS1.EXAMPLE"),
      Line("Name Server", "ns2.example")>> }

Bodies(hostname) ==
  IF hostname = RegistrarHost THEN RegistrarBodies ELSE {RegistryBody}

Referral(ref, query) ==
  IF ref = NoneVal
    THEN <<>>
    ELSE <<Line("Domain Name", query), Line("Whois Server", ref)>>

\* The replies a server may send before it closes the connection: nothing
\* (<<>>: the connection closed with no bytes sent), the notice asking for
\* the "=" form, or a record with or without a "Whois Server:" line.
Responses(hostname, query) ==
  {<<>>, <<EqxLine>>}
  \cup { Referral(ref, query) \o body :
           ref \in {NoneVal} \cup RefVals(hostname), body \in Bodies(hostname) }
  \cup (IF hostname = ANICHOST
          THEN {<<Line("ReferralServer", RNICHOST)>>}
          ELSE {})

\* What the IANA service may answer: a "whois: <host>" line, a reply with
\* no such line, or bytes that are not UTF-8.
IanaReplies(tld) ==
  {IF tld = "com" THEN VerisignHost ELSE RnidsHost, "no whois line", "undecodable"}

\* ------------------------------------------------------------ the parser

\* WhoisEntry._regex: each field with the line labels its pattern finds.
\* The patterns are searched unanchored and ignoring case, so a pattern
\* also finds the longer labels that end in its literal.
BaseRegex ==
  << [attr |-> "domain_name", labels |-> {"Domain Name"}],
     [attr |-> "registrar", labels |-> {"Registrar", "Sponsoring Registrar"}],
     [attr |-> "registrar_url", labels |-> {"Registrar URL"}],
     [attr |-> "reseller", labels |-> {"Reseller"}],
     [attr |-> "whois_server", labels |-> {"Whois Server", "Registrar WHOIS Server"}],
     [attr |-> "referral_url", labels |-> {"Referral URL"}],
     [attr |-> "updated_date", labels |-> {"Updated Date"}],
     [attr |-> "creation_date", labels |-> {"Creation Date"}],
     [attr |-> "expiration_date", labels |-> {"Expiration Date", "Registry Expiry Date"}],
     [attr |-> "name_servers", labels |-> {"Name Server"}],
     [attr |-> "status", labels |-> {"Status", "Domain Status"}],
     [attr |-> "emails", labels |-> {}],
     [attr |-> "dnssec", labels |-> {"dnssec"}],
     [attr |-> "name", labels |-> {"Registrant Name"}],
     [attr |-> "registrant", labels |-> {"Registrant Organization"}],
     [attr |-> "address", labels |-> {"Registrant Street"}],
     [attr |-> "city", labels |-> {"Registrant City"}],
     [attr |-> "state", labels |-> {"Registrant State/Province"}],
     [attr |-> "registrant_postal_code", labels |-> {"Registrant Postal Code"}],
     [attr |-> "registrant_country", labels |-> {"Registrant Country"}] >>

\* WhoisDe.regex
DeRegex ==
  << [attr |-> "domain_name", labels |-> {"Domain"}],
     [attr |-> "status", labels |-> {"Status", "Domain Status"}],
     [attr |-> "registrar", labels |-> {"organisation"}],
     [attr |-> "updated_date", labels |-> {"Changed"}],
     [attr |-> "name", labels |-> {"name"}],
     [attr |-> "org", labels |-> {"organisation"}],
     [attr |-> "address", labels |-> {"Address"}],
     [attr |-> "registrant_postal_code", labels |-> {"PostalCode"}],
     [attr |-> "city", labels |-> {"City"}],
     [attr |-> "registrant_country", labels |-> {"CountryCode"}],
     [attr |-> "phone", labels |-> {"Phone"}],
     [attr |-> "fax", labels |-> {"Fax"}],
     [attr |-> "name_servers", labels |-> {"Nserver"}],
     [attr |-> "emails", labels |-> {}],
     [attr |-> "creation_date", labels |-> {"created"}] >>

\* WhoisCl.regex
ClRegex ==
  << [attr |-> "domain_name", labels |-> {"Domain name"}],
     [attr |-> "registrant_name", labels |-> {"Registrant name"}],
     [attr |-> "registrant", labels |-> {"Registrant organisation"}],
     [attr |-> "registrar", labels |-> {"registrar name"}],
     [attr |-> "registrar_url", labels |-> {"Registrar URL"}],
     [attr |-> "creation_date", labels |-> {"Creation date"}],
     [attr |-> "expiration_date", labels |-> {"Expiration date"}],
     [attr |-> "name_servers", labels |-> {"Name server"}] >>

\* WhoisPl.regex; the pattern of name_servers has four groups, one per name
\* server line of the block.
PlRegex ==
  << [attr |-> "domain_name", labels |-> {"DOMAIN NAME"}],
     [attr |-> "name_servers", labels |-> {"nameservers"}],
     [attr |-> "registrar", labels |-> {"REGISTRAR"}],
     [attr |-> "registrar_url", labels |-> {"URL"}],
     [attr |-> "status", labels |-> {"Registration status"}],
     [attr |-> "registrant_name", labels |-> {"Registrant"}],
     [attr |-> "creation_date", labels |-> {"created"}],
     [attr |-> "expiration_date", labels |-> {"renewal date"}],
     [attr |-> "updated_date", labels |-> {"last modified"}] >>

\* The fields of which parse keeps the last value only.
ScalarAttrs == {"registrar", "whois_server", "referral_url"}

\* "_date" in attr
IsDateAttr(attr) == attr \in {"updated_date", "creation_date", "expiration_date"}

\* str.isdigit of the values that occur in texts.
IsDigit(v) == v \in {"20240101", "20170209", "12345"}

\* KNOWN_FORMATS, in the order of the list.
KNOWN_FORMATS ==
  << "%d-%b-%Y",
     "%d-%B-%Y",
     "%d-%m-%Y",
     "%Y-%m-%d",
     "%d.%m.%Y",
     "%Y.%m.%d",
     "%Y/%m/%d",
     "%Y/%m/%d %H:%M:%S",
     "%Y/%m/%d %H:%M:%S (%z)",
     "%Y%m%d",
     "%Y%m%d %H:%M:%S",
     "%d/%m/%Y",
     "%Y. %m. %d.",
     "%Y.%m.%d %H:%M:%S",
     "%d-%b-%Y %H:%M:%S %Z",
     "%dth %B %Y at %H:%M:%S.%f",
     "%d %B %Y at %H:%M:%S.%f",
     "%-d %B %Y at %H:%M:%S.%f",
     "%a %b %d %H:%M:%S %Z %Y",
     "%a %b %d %H:%M:%S %Y",
     "%a %b %-d %H:%M:%S %Z %Y",
     "%a %b %-d %H:%M:%S %Y",
     "%a %b %-d %H:%M:%S %Y",
     "%a %b %d %Y",
     "%Y-%m-%d %H:%M:%S (%Z+0:00)",
     "%Y-%m-%dT%H:%M:%S",
     "%Y-%m-%dT%H:%M:%SZ",
     "%Y-%m-%dT%H:%M:%SZ[%Z]",
     "%Y-%m-%d %H:%M:%S %z",
     "%Y-%m-%d %H:%M:%S.%f",
     "%Y-%m-%dT%H:%M:%S.%fZ",
     "%Y-%m-%dT%H:%M:%S.%f%z",
     "%Y-%m-%d %H:%M:%S%z",
     "%Y-%m-%dT%H:%M:%S%z",
     "%Y-%m-%dT%H:%M:%S%zZ",
     "%Y-%m-%dt%H:%M:%S.%f",
     "%Y-%m-%dt%H:%M:%S",
     "%Y-%m-%dt%H:%M:%SZ",
     "%Y-%m-%dt%H:%M:%S.%fz",
     "%Y-%m-%dt%H:%M:%S%z",
     "%Y-%m-%dt%H:%M:%S.%f%z",
     "%Y-%m-%d %H:%M:%SZ",
     "%Y-%m-%d %H:%M:%S",
     "%d %b %Y %H:%M:%S",
     "%d/%m/%Y %H:%M:%S",
     "%d/%m/%Y %H:%M:%S %Z",
     "%d/%m/%Y %H:%M:%S.%f %Z",
     "%B %d %Y",
     "%d.%m.%Y %H:%M:%S",
     "%dst %B %Y at %H:%M:%S.%f",
     "before %Y",
     "before %b-%Y",
     "before %Y-%m-%d",
     "before %Y%m%d",
     "%Y-%m-%d %H:%M:%S (%Z%z)",
     "%Y-%b-%d." >>

\* The date texts of the model.
DateTexts ==
  { "2020-01-02", "02-jan-2020", "02-may-2020",
    "01-02-2020", "2007-01-26T19:10:31Z", "2007-01-26T19:10:31",
    "2000-08-22 18:55:20Z", "2010-07-04 03:46:45 +03:00", "2013-12-06T08:17:22-0800",
    "before aug-1996", "before 2001", "20170209",
    "20240101", "2000.01.02", "02.01.2000",
    "2011/06/01 01:05:01", "Tue Jun 21 23:59:59 GMT 2011", "tomorrow",
    "2020-13-45", "12345",
    "2006-08-29 21:00:52", "2006-08-29 21:00:52 CLST" }

\* datetime.strptime(s, known_format) for those texts: the datetime, written as
\* str() prints it, or ValueError.
strptime(s, known_format) ==
  CASE s = "2020-01-02" /\ known_format = "%Y-%m-%d" -> "2020-01-02 00:00:00"
    [] s = "02-jan-2020" /\ known_format = "%d-%b-%Y" -> "2020-01-02 00:00:00"
    [] s = "02-may-2020" /\ known_format = "%d-%b-%Y" -> "2020-05-02 00:00:00"
    [] s = "02-may-2020" /\ known_format = "%d-%B-%Y" -> "2020-05-02 00:00:00"
    [] s = "01-02-2020" /\ known_format = "%d-%m-%Y" -> "2020-02-01 00:00:00"
    [] s = "2007-01-26T19:10:31Z" /\ known_format = "%Y-%m-%dT%H:%M:%SZ" -> "2007-01-26 19:10:31"
    [] s = "2007-01-26T19:10:31Z" /\ known_format = "%Y-%m-%dT%H:%M:%S%z" -> "2007-01-26 19:10:31+00:00"
    [] s = "2007-01-26T19:10:31Z" /\ known_format = "%Y-%m-%dt%H:%M:%SZ" -> "2007-01-26 19:10:31"
    [] s = "2007-01-26T19:10:31Z" /\ known_format = "%Y-%m-%dt%H:%M:%S%z" -> "2007-01-26 19:10:31+00:00"
    [] s = "2007-01-26T19:10:31" /\ known_format = "%Y-%m-%dT%H:%M:%S" -> "2007-01-26 19:10:31"
    [] s = "2007-01-26T19:10:31" /\ known_format = "%Y-%m-%dt%H:%M:%S" -> "2007-01-26 19:10:31"
    [] s = "2000-08-22 18:55:20Z" /\ known_format = "%Y-%m-%d %H:%M:%S%z" -> "2000-08-22 18:55:20+00:00"
    [] s = "2000-08-22 18:55:20Z" /\ known_format = "%Y-%m-%d %H:%M:%SZ" -> "2000-08-22 18:55:20"
    [] s = "2010-07-04 03:46:45 +03:00" /\ known_format = "%Y-%m-%d %H:%M:%S %z" -> "2010-07-04 03:46:45+03:00"
    [] s = "2013-12-06T08:17:22-0800" /\ known_format = "%Y-%m-%dT%H:%M:%S%z" -> "2013-12-06 08:17:22-08:00"
    [] s = "2013-12-06T08:17:22-0800" /\ known_format = "%Y-%m-%dt%H:%M:%S%z" -> "2013-12-06 08:17:22-08:00"
    [] s = "before aug-1996" /\ known_format = "before %b-%Y" -> "1996-08-01 00:00:00"
    [] s = "before 2001" /\ known_format = "before %Y" -> "2001-01-01 00:00:00"
    [] s = "20170209" /\ known_format = "%Y%m%d" -> "2017-02-09 00:00:00"
    [] s = "20240101" /\ known_format = "%Y%m%d" -> "2024-01-01 00:00:00"
    [] s = "2000.01.02" /\ known_format = "%Y.%m.%d" -> "2000-01-02 00:00:00"
    [] s = "02.01.2000" /\ known_format = "%d.%m.%Y" -> "2000-01-02 00:00:00"
    [] s = "2011/06/01 01:05:01" /\ known_format = "%Y/%m/%d %H:%M:%S" -> "2011-06-01 01:05:01"
    [] s = "Tue Jun 21 23:59:59 GMT 2011" /\ known_format = "%a %b %d %H:%M:%S %Z %Y" -> "2011-06-21 23:59:59"
    [] s = "2006-08-29 21:00:52" /\ known_format = "%Y-%m-%d %H:%M:%S" -> "2006-08-29 21:00:52"
    [] OTHER -> "ValueError"

\* "Unknown date format: {s}", the message of WhoisUnknownDateFormatError; as
\* a value of the model it stands for the exception raised.
UnknownDateFormat(s) == "Unknown date format: " \o s

\* The formats, by position, that strptime accepts for s.
FormatsFor(s) ==
  {i \in DOMAIN KNOWN_FORMATS : strptime(s, KNOWN_FORMATS[i]) # "ValueError"}

\* datetime_parse keeping the text where no format fits.
datetime_parse_lenient(s) ==
  IF FormatsFor(s) = {} THEN s ELSE strptime(s, KNOWN_FORMATS[Min(FormatsFor(s))])

\* datetime_parse taking the last format that fits.
datetime_parse_last(s) ==
  IF FormatsFor(s) = {}
    THEN UnknownDateFormat(s)
    ELSE strptime(s, KNOWN_FORMATS[CHOOSE i \in FormatsFor(s) :
                                     \A j \in FormatsFor(s) : j <= i])

\* datetime_parse: the first format of KNOWN_FORMATS that strptime accepts
\* gives the datetime; a text that fits no format raises
\* WhoisUnknownDateFormatError.
datetime_parse(s) ==
  IF FormatsFor(s) = {}
    THEN UnknownDateFormat(s)
    ELSE strptime(s, KNOWN_FORMATS[Min(FormatsFor(s))])

\* dateutil's dp.parse(s, dayfirst=..., yearfirst=...) for the texts cast_date
\* is given: the datetime, or ParserError.
dp_parse(s, dayfirst, yearfirst) ==
  CASE s = "2020-01-02" ->
         IF dayfirst THEN "2020-02-01 00:00:00" ELSE "2020-01-02 00:00:00"
    [] s = "01-02-2020" ->
         IF dayfirst THEN "2020-02-01 00:00:00" ELSE "2020-01-02 00:00:00"
    [] s = "02-jan-2020" -> "2020-01-02 00:00:00"
    [] s = "02-may-2020" -> "2020-05-02 00:00:00"
    [] s = "2007-01-26T19:10:31Z" -> "2007-01-26 19:10:31+00:00"
    [] s = "2000-08-22 18:55:20Z" -> "2000-08-22 18:55:20+00:00"
    [] OTHER -> "ParserError"

\* The datetimes above that carry a zone.
AwareDatetimes ==
  { "2007-01-26 19:10:31+00:00", "2000-08-22 18:55:20+00:00",
    "2010-07-04 03:46:45+03:00", "2013-12-06 08:17:22-08:00" }

\* dateutil.utils.default_tzinfo(dt, tzinfo)
default_tzinfo(dt, tzinfo) == IF dt \in AwareDatetimes THEN dt ELSE dt \o tzinfo

\* The expression datetime.timezone.utc of cast_date: datetime is the class
\* imported by "from datetime import datetime", which has no attribute
\* timezone.
datetime_timezone_utc == "AttributeError"

\* cast_date: dp.parse is evaluated, then datetime.timezone.utc; whatever is
\* raised is caught by "except Exception" and datetime_parse decides.
cast_date(s, dayfirst, yearfirst) ==
  LET parsed == dp_parse(s, dayfirst, yearfirst)
  IN  IF parsed = "ParserError" \/ datetime_timezone_utc = "AttributeError"
        THEN datetime_parse(s)
        ELSE default_tzinfo(parsed, datetime_timezone_utc)

\* The data_preprocessor WhoisCl registers:
\* lambda x: x.replace(" CLST", "").replace(" CLT", ""), on the values that
\* occur in texts.
ClPreprocessor(x) ==
  CASE x = "2006-08-29 21:00:52 CLST" -> "2006-08-29 21:00:52"
    [] x = "NIC Chile CLT" -> "NIC Chile"
    [] OTHER -> x

\* self._data_preprocessor(value): the transform registered under that name.
ApplyPreprocessor(data_preprocessor, value) ==
  IF data_preprocessor = "WhoisCl" THEN ClPreprocessor(value) ELSE value

\* WhoisEntry._preprocess, dayfirst and yearfirst False: the registered
\* data_preprocessor, if any, is applied inside the date branch only.
Preprocess(data_preprocessor, attr, value) ==
  LET stripped == Strip(value)
  IN  IF stripped # "" /\ ~IsDigit(stripped) /\ IsDateAttr(attr)
        THEN IF data_preprocessor # NoneVal
               THEN cast_date(ApplyPreprocessor(data_preprocessor, stripped),
                              FALSE, FALSE)
               ELSE cast_date(stripped, FALSE, FALSE)
        ELSE stripped

\* _preprocess raises for this value of this field.
PreprocessRaises(data_preprocessor, attr, value) ==
  /\ Strip(value) # ""
  /\ ~IsDigit(Strip(value))
  /\ IsDateAttr(attr)
  /\ Preprocess(data_preprocessor, attr, value)
       = UnknownDateFormat(ApplyPreprocessor(data_preprocessor, Strip(value)))

LowerAll(values) == {Lower(values[i]) : i \in DOMAIN values}

\* The duplicate test made on the values as they are.
KeepCaseSensitive(values, value) ==
  IF value # "" /\ value \notin {values[k] : k \in DOMAIN values}
    THEN Append(values, value)
    ELSE values

\* if value and str(value).lower() not in [str(v).lower() for v in values]:
\*     values.append(value)
Keep(values, value) ==
  IF value # "" /\ Lower(value) \notin LowerAll(values)
    THEN Append(values, value)
    ELSE values

\* A match of a pattern with several groups: the tuple re.findall gives, with
\* "" for a group that took no part.
Block(label, groups) == [label |-> label, val |-> groups[1], groups |-> groups]

\* matches = data if isinstance(data, tuple) else [data]
Groups(data) == IF "groups" \in DOMAIN data THEN data.groups ELSE <<data.val>>

\* The inner loop taking the first non-empty group of the match only.
AcceptedGroupsFirstOnly(data_preprocessor, attr, matches, g, values) ==
  LET filled == {k \in DOMAIN matches : Strip(matches[k]) # ""}
  IN  IF filled = {}
        THEN values
        ELSE Keep(values, Preprocess(data_preprocessor, attr, matches[Min(filled)]))

\* The inner loop of parse, "for value in matches", from group g on.
RECURSIVE AcceptedGroups(_, _, _, _, _)
AcceptedGroups(data_preprocessor, attr, matches, g, values) ==
  IF g > Len(matches)
    THEN values
    ELSE AcceptedGroups(data_preprocessor, attr, matches, g + 1,
                        Keep(values, Preprocess(data_preprocessor, attr, matches[g])))

\* The loop of parse over re.findall: the values accepted for one field from
\* the lines from i on, after those already accepted.
RECURSIVE Accepted(_, _, _, _, _, _)
Accepted(data_preprocessor, attr, labels, text, i, values) ==
  IF i > Len(text)
    THEN values
    ELSE IF text[i].label \in labels
      THEN Accepted(data_preprocessor, attr, labels, text, i + 1,
                    AcceptedGroups(data_preprocessor, attr, Groups(text[i]), 1, values))
      ELSE Accepted(data_preprocessor, attr, labels, text, i + 1, values)

NoField == [kind |-> "none", vals |-> <<>>]
One(v) == [kind |-> "one", vals |-> <<v>>]
Many(vs) == [kind |-> "list", vals |-> vs]

\* parse storing the first accepted value only.
CollapseFirstOnly(attr, values) ==
  IF values # <<>> THEN One(values[1]) ELSE NoField

\* What parse stores for a field: the last value for the scalar fields, the
\* value when there is one, the list when there are more, else None.
Collapse(attr, values) ==
  LET kept == IF values # <<>> /\ attr \in ScalarAttrs
                THEN <<values[Len(values)]>>
                ELSE values
  IN  IF Len(kept) = 1 THEN One(kept[1])
      ELSE IF kept # <<>> THEN Many(kept)
      ELSE NoField

Attrs(regex) == {regex[i].attr : i \in DOMAIN regex}

LabelsOf(regex, attr) ==
  regex[CHOOSE i \in DOMAIN regex : regex[i].attr = attr].labels

\* WhoisEntry.parse: the record, or the error cast_date raised.
parse(regex, data_preprocessor, text) ==
  LET accepted == [a \in Attrs(regex) |->
                     Accepted(data_preprocessor, a, LabelsOf(regex, a), text, 1, <<>>)]
  IN  IF \E a \in Attrs(regex) : \E i \in DOMAIN text :
            /\ text[i].label \in LabelsOf(regex, a)
            /\ \E g \in DOMAIN Groups(text[i]) :
                 PreprocessRaises(data_preprocessor, a, Groups(text[i])[g])
        THEN [kind |-> "exc", exc |-> "WhoisUnknownDateFormatError", fields |-> <<>>]
        ELSE [kind |-> "record", exc |-> NoneVal,
              fields |-> [a \in Attrs(regex) |-> Collapse(a, accepted[a])]]

\* <sentinel> in text, for the sentinels the servers send as a line.
InText(text, label, val) == \E i \in DOMAIN text : text[i] = Line(label, val)

NotFound ==
  [kind |-> "exc", exc |-> "WhoisDomainNotFoundError", fields |-> <<>>]

\* WhoisEntry.__init__ looking for its sentinel after parse has run.
WhoisEntryInitParseFirst(text, regex, data_preprocessor) ==
  IF parse(regex, data_preprocessor, text).kind = "exc"
    THEN parse(regex, data_preprocessor, text)
  ELSE IF InText(text, "notice",
                 "This TLD has no whois server, but you can access the whois database at")
    THEN NotFound
  ELSE parse(regex, data_preprocessor, text)

\* WhoisEntry.__init__
WhoisEntryInit(text, regex, data_preprocessor) ==
  IF InText(text, "notice",
            "This TLD has no whois server, but you can access the whois database at")
    THEN NotFound
    ELSE parse(regex, data_preprocessor, text)

\* WhoisEntry.load for the domains of the model: .com gives WhoisCom, .de
\* gives WhoisDe, .pl gives WhoisPl, .cl gives WhoisCl, any other WhoisEntry.
load(domain, text) ==
  IF text = <<Line("notice", "No whois server is known for this kind of object.")>>
    THEN NotFound
  ELSE IF LastLabel(domain) = "com" /\ Len(Labels(domain)) >= 2
    THEN IF InText(text, "notice", "No match for \"")
           THEN NotFound
           ELSE WhoisEntryInit(text, BaseRegex, NoneVal)
  ELSE IF LastLabel(domain) = "de" /\ Len(Labels(domain)) >= 2
    THEN IF InText(text, "Status", "free")
           THEN NotFound
           ELSE WhoisEntryInit(text, DeRegex, NoneVal)
  ELSE IF LastLabel(domain) = "pl" /\ Len(Labels(domain)) >= 2
    THEN IF InText(text, "notice", "No information available about domain name")
           THEN NotFound
           ELSE WhoisEntryInit(text, PlRegex, NoneVal)
  ELSE IF LastLabel(domain) = "cl" /\ Len(Labels(domain)) >= 2
    THEN IF InText(text, "notice", "No match for \"")
           THEN NotFound
           ELSE WhoisEntryInit(text, ClRegex, "WhoisCl")
  ELSE WhoisEntryInit(text, BaseRegex, NoneVal)

\* ------------------------------------------------------------------ state

VARIABLES
  api,           \* the call in progress or last made: which entry point
  pc,            \* "idle", "iana_connect", "iana_exchange", "running", "done"
  args,          \* the arguments of that call; for whois_lookup, flags are the
                 \* flags after its own adjustment and given those it was passed
  use_qnichost,  \* NICClient.use_qnichost
  options,       \* the options dict of the latest whois_lookup call
  stack,         \* the frames of NICClient.whois, innermost last
  conns,         \* the sockets the call created, in order
  outcome,       \* what the call returned or raised
  iana_queries,  \* per TLD, the queries sent to whois.iana.org in this process
                 \* and the hosts it answered with
  ncalls,        \* calls made so far
  entry          \* what WhoisEntry.load made of the text, once it is called

vars ==
  <<api, pc, args, use_qnichost, options, stack, conns, outcome, iana_queries,
    ncalls, entry>>

NoEntry == [kind |-> "unset", exc |-> NoneVal, fields |-> <<>>]

Tlds == {Labels(d)[Len(Labels(d))] : d \in Domains}

NoArgs ==
  [query |-> NoneVal, flags |-> 0, quiet |-> FALSE, timeout |-> 0, given |-> 0]
NoOutcome == [kind |-> "none", val |-> NoneVal, text |-> <<>>]
Returned(text) == [kind |-> "text", val |-> NoneVal, text |-> text]
ReturnedHost(host) == [kind |-> "host", val |-> host, text |-> <<>>]
Raised(exc) == [kind |-> "exc", val |-> exc, text |-> <<>>]

\* NICClient.__init__, and a caller that holds no options dict yet.
Init ==
  /\ api = "none"
  /\ pc = "idle"
  /\ args = NoArgs
  /\ use_qnichost = FALSE
  /\ options = [whoishost |-> NoneVal, country |-> NoneVal, held |-> FALSE]
  /\ stack = <<>>
  /\ conns = <<>>
  /\ outcome = NoOutcome
  /\ iana_queries = [t \in Tlds |-> [sent |-> 0, answered |-> 0]]
  /\ ncalls = 0
  /\ entry = NoEntry

\* s = self.get_socket(); s.settimeout(timeout)
Socket(host, timeout, role) ==
  [host |-> host, timeout |-> timeout, role |-> role, connected |-> FALSE,
   line |-> <<>>, got |-> "none", text |-> <<>>, open |-> TRUE]

\* A fresh activation of NICClient.whois, with its socket at index conn.
Frame(query, hostname, flags, many_results, quiet, timeout, conn) ==
  [query |-> query, hostname |-> hostname, flags |-> flags,
   many_results |-> many_results, quiet |-> quiet, timeout |-> timeout,
   pc |-> "connect", response |-> <<>>, conn |-> conn]

CanCall == pc = "idle" /\ ncalls < MaxLookups

Timeouts == {5, DefaultTimeout}

\* A direct call of NICClient.whois.
CallNicWhois ==
  \E query \in {"example.com"},
     hostname \in {NICHOST, DENICHOST, ANICHOST, RuCountryHost, DK_HOST, JP_HOST},
     flags \in {0, WHOIS_RECURSE}, many_results \in BOOLEAN, timeout \in Timeouts :
    /\ CanCall
    /\ api' = "nic_whois"
    /\ pc' = "running"
    /\ args' = [query |-> query, flags |-> flags, quiet |-> FALSE,
                timeout |-> timeout]
    /\ stack' = <<Frame(query, hostname, flags, many_results, FALSE, timeout, 1)>>
    /\ conns' = <<Socket(hostname, timeout, "first")>>
    /\ outcome' = NoOutcome
    /\ ncalls' = ncalls + 1
    /\ UNCHANGED <<use_qnichost, options, iana_queries, entry>>

Top == stack[Len(stack)]

SetTop(frame) == [stack EXCEPT ![Len(stack)] = frame]

\* The handler without its assignment to response.
OnSocketErrorSilent(exc, sent) ==
  /\ stack' = SetTop([Top EXCEPT !.pc = "ret"])
  /\ conns' = [conns EXCEPT ![Top.conn].open = FALSE,
                            ![Top.conn].got = "error",
                            ![Top.conn].line = sent]

\* except socket.error: s.close(); response = "Socket not responding: ..."
OnSocketError(exc, sent) ==
  /\ stack' = SetTop([Top EXCEPT !.pc = "ret", !.response = SocketErrorText(exc)])
  /\ conns' = [conns EXCEPT ![Top.conn].open = FALSE,
                            ![Top.conn].got = "error",
                            ![Top.conn].line = sent]

\* s.connect((hostname, 43))
Connect ==
  /\ pc = "running"
  /\ Top.pc = "connect"
  /\ \/ /\ stack' = SetTop([Top EXCEPT !.pc = "exchange"])
        /\ conns' = [conns EXCEPT ![Top.conn].connected = TRUE]
     \/ \E exc \in SocketErrors : OnSocketError(exc, <<>>)
  /\ UNCHANGED <<api, pc, args, use_qnichost, options, outcome, iana_queries, ncalls,
               entry>>

\* The socket of the innermost frame after s.send, the recv loop that read
\* response, and s.close().
Closed(response) ==
  [conns EXCEPT ![Top.conn].open = FALSE,
                ![Top.conn].got = IF response = <<>> THEN "empty" ELSE "bytes",
                ![Top.conn].text = response,
                ![Top.conn].line = QueryLine(Top.hostname, Top.query, Top.many_results)]

\* A nested call self.whois(...): a new frame with a socket of its own, or
\* RecursionError, which no frame catches, when the interpreter's stack is full.
Nested(waiting, response, hostname, flags, many_results, quiet, role) ==
  IF Len(stack) >= RecursionLimit
    THEN /\ stack' = <<>>
         /\ pc' = "done"
         /\ outcome' = Raised("RecursionError")
         /\ conns' = Closed(response)
    ELSE /\ stack' = Append(SetTop([Top EXCEPT !.pc = waiting, !.response = response]),
                            Frame(Top.query, hostname, flags, many_results, quiet,
                                  DefaultTimeout, Len(conns) + 1))
         /\ conns' = Append(Closed(response), Socket(hostname, DefaultTimeout, role))
         /\ UNCHANGED <<pc, outcome>>

\* The referral search run whatever the flags.
ReferralHostAnyFlags(response, hostname, flags, query) ==
  findwhois_server(response, hostname, query)

\* The referral host the response gives, when the flags ask for one.
ReferralHost(response, hostname, flags, query) ==
  IF HasRecurse(flags) THEN findwhois_server(response, hostname, query) ELSE NoneVal

\* s.send(...), the recv loop, s.close(), and what follows the decoded response.
Exchange ==
  /\ pc = "running"
  /\ Top.pc = "exchange"
  /\ \/ \E exc \in SocketErrors :
          /\ \/ OnSocketError(exc, <<>>)
             \/ OnSocketError(exc, QueryLine(Top.hostname, Top.query, Top.many_results))
          /\ UNCHANGED <<pc, outcome>>
     \/ \E response \in Responses(Top.hostname, Top.query) :
          LET nhost == ReferralHost(response, Top.hostname, Top.flags, Top.query)
          IN  IF HasEqx(response)
                THEN Nested("wait_eq", response, Top.hostname, Top.flags, TRUE, FALSE,
                            "requery")
              ELSE IF nhost # NoneVal /\ nhost # ""
                THEN Nested("wait_ref", response, nhost, 0, FALSE, TRUE, "referral")
              ELSE /\ stack' = SetTop([Top EXCEPT !.pc = "ret", !.response = response])
                   /\ conns' = Closed(response)
                   /\ UNCHANGED <<pc, outcome>>
  /\ UNCHANGED <<api, args, use_qnichost, options, iana_queries, ncalls, entry>>

\* return response: to the caller of the outermost frame, or into the frame
\* that made the nested call (returned as is, or appended to its response).
Return ==
  /\ pc = "running"
  /\ Top.pc = "ret"
  /\ IF Len(stack) = 1
       THEN /\ stack' = <<>>
            /\ pc' = "done"
            /\ outcome' = Returned(Top.response)
       ELSE LET parent == stack[Len(stack) - 1]
                rest == SubSeq(stack, 1, Len(stack) - 2)
            IN  /\ stack' = Append(rest,
                     [parent EXCEPT
                        !.pc = "ret",
                        !.response = IF parent.pc = "wait_eq"
                                       THEN Top.response
                                       ELSE parent.response \o Top.response])
                /\ UNCHANGED <<pc, outcome>>
  /\ UNCHANGED <<api, args, use_qnichost, options, conns, iana_queries, ncalls, entry>>

\* The dicts a caller builds for whois_lookup.
FreshOptions ==
  { [whoishost |-> NoneVal, country |-> NoneVal, held |-> TRUE],
    [whoishost |-> DENICHOST, country |-> NoneVal, held |-> TRUE],
    [whoishost |-> NoneVal, country |-> "ru", held |-> TRUE] }

\* self.whois(query_arg, <host>, flags, quiet=quiet) as called by whois_lookup.
StartWhois(query, hostname, flags, quiet) ==
  /\ pc' = "running"
  /\ stack' = <<Frame(query, hostname, flags, FALSE, quiet, DefaultTimeout, 1)>>
  /\ conns' = <<Socket(hostname, DefaultTimeout, "first")>>
  /\ outcome' = NoOutcome

\* The call of findwhois_iana(tld): its socket, with settimeout(10).
StartIana ==
  /\ pc' = "iana_connect"
  /\ stack' = <<>>
  /\ conns' = <<Socket(IANAHOST, IanaTimeout, "iana")>>
  /\ outcome' = NoOutcome

\* NICClient.whois_lookup(options, query_arg, flags, quiet): optarg is None,
\* the dict of the previous call passed again ("held"), or a new dict.
CallWhoisLookup ==
  \E optarg \in {[whoishost |-> NoneVal, country |-> NoneVal, held |-> FALSE]}
                  \cup {options} \cup FreshOptions,
     query \in LookupDomains, flags \in 0..3, quiet \in {FALSE} :
    LET defaulted == optarg.whoishost = NoneVal /\ optarg.country = NoneVal
        qnic == IF defaulted THEN TRUE ELSE use_qnichost
        opts == IF defaulted THEN [optarg EXCEPT !.whoishost = NICHOST] ELSE optarg
        flags1 == IF defaulted /\ ~HasQuick(flags) THEN SetRecurse(flags) ELSE flags
        nichost == choose_server(query)
    IN  /\ CanCall
        /\ optarg = options => options.held
        /\ api' = "whois_lookup"
        /\ args' = [query |-> query, flags |-> flags1, quiet |-> quiet,
                    timeout |-> DefaultTimeout, given |-> flags]
        /\ use_qnichost' = qnic
        /\ options' = opts
        /\ ncalls' = ncalls + 1
        /\ IF opts.country # NoneVal
             THEN StartWhois(query, CountryHost(opts.country), flags1, quiet)
           ELSE IF qnic
             THEN CASE nichost.kind = "host" ->
                         StartWhois(query, nichost.host, flags1, quiet)
                    [] nichost.kind = "none" ->
                         /\ pc' = "done"
                         /\ stack' = <<>>
                         /\ conns' = <<>>
                         /\ outcome' = Returned(<<>>)
                    [] nichost.kind = "iana" -> StartIana
           ELSE StartWhois(query, opts.whoishost, flags1, quiet)
        /\ UNCHANGED <<iana_queries, entry>>

\* A direct call of NICClient.choose_server(domain).
CallChooseServer ==
  \E domain \in Domains :
    LET nichost == choose_server(domain)
    IN  /\ CanCall
        /\ api' = "choose_server"
        /\ args' = [NoArgs EXCEPT !.query = domain]
        /\ ncalls' = ncalls + 1
        /\ IF nichost.kind = "iana"
             THEN StartIana
             ELSE /\ pc' = "done"
                  /\ stack' = <<>>
                  /\ conns' = <<>>
                  /\ outcome' = IF nichost.kind = "host"
                                  THEN ReturnedHost(nichost.host)
                                  ELSE ReturnedHost(NoneVal)
        /\ UNCHANGED <<use_qnichost, options, iana_queries, entry>>

\* findwhois_iana giving an empty host where it raises.
IanaReturnsEmpty(exc) ==
  /\ pc' = "done"
  /\ outcome' = ReturnedHost("")
  /\ UNCHANGED <<stack, use_qnichost, options, api, args, ncalls>>

\* findwhois_iana has no try: whatever it raises leaves choose_server and
\* whois_lookup, and the socket is not closed on that path.
IanaRaise(exc) ==
  /\ pc' = "done"
  /\ outcome' = Raised(exc)
  /\ UNCHANGED <<stack, use_qnichost, options, api, args, ncalls>>

\* s.connect(("whois.iana.org", 43))
IanaConnect ==
  /\ pc = "iana_connect"
  /\ \/ /\ conns' = [conns EXCEPT ![1].connected = TRUE]
        /\ pc' = "iana_exchange"
        /\ UNCHANGED <<stack, use_qnichost, options, api, args, ncalls, outcome>>
     \/ /\ conns' = [conns EXCEPT ![1].got = "error"]
        /\ IanaRaise("socket.error")
  /\ UNCHANGED <<iana_queries, entry>>

IanaLine(tld) == <<"", tld, "", "\r\n">>

\* s.send(tld), the recv loop, s.close(), and the search for "whois: <host>";
\* then, inside whois_lookup, the query to the host found.
IanaExchange ==
  LET tld == LastLabel(args.query)
      sent == [conns EXCEPT ![1].line = IanaLine(tld)]
      asked == [iana_queries EXCEPT ![tld].sent = @ + 1]
      answered == [asked EXCEPT ![tld].answered = @ + 1]
  IN  /\ pc = "iana_exchange"
      /\ UNCHANGED <<entry>>
      /\ \/ /\ conns' = [conns EXCEPT ![1].got = "error"]
            /\ iana_queries' = iana_queries
            /\ IanaRaise("socket.error")
         \/ /\ conns' = [sent EXCEPT ![1].got = "error"]
            /\ iana_queries' = asked
            /\ IanaRaise("socket.error")
         \/ \E reply \in IanaReplies(tld) :
              /\ iana_queries' = IF reply \in {"no whois line", "undecodable"}
                                   THEN asked
                                   ELSE answered
              /\ UNCHANGED <<use_qnichost, options, api, args, ncalls>>
              /\ CASE reply = "no whois line" ->
                        /\ conns' = [sent EXCEPT ![1].got = "bytes", ![1].open = FALSE]
                        /\ pc' = "done"
                        /\ outcome' = Raised("AttributeError")
                        /\ UNCHANGED stack
                   [] reply = "undecodable" ->
                        /\ conns' = [sent EXCEPT ![1].got = "bytes", ![1].open = FALSE]
                        /\ pc' = "done"
                        /\ outcome' = Raised("UnicodeDecodeError")
                        /\ UNCHANGED stack
                   [] OTHER ->
                        IF api = "choose_server"
                          THEN /\ conns' = [sent EXCEPT ![1].got = "bytes",
                                                        ![1].open = FALSE]
                               /\ pc' = "done"
                               /\ outcome' = ReturnedHost(reply)
                               /\ UNCHANGED stack
                          ELSE /\ conns' = Append([sent EXCEPT ![1].got = "bytes",
                                                               ![1].open = FALSE],
                                                  Socket(reply, DefaultTimeout, "first"))
                               /\ pc' = "running"
                               /\ stack' = <<Frame(args.query, reply, args.flags, FALSE,
                                                   args.quiet, DefaultTimeout, 2)>>
                               /\ UNCHANGED outcome

\* The library entry point whois(url, ..., timeout=timeout) with the built-in
\* client: it calls whois_lookup with the keywords ignore_socket_errors and
\* timeout, which whois_lookup does not take.
CallWhois ==
  \E url \in Domains, timeout \in Timeouts :
    /\ CanCall
    /\ api' = "whois"
    /\ args' = [query |-> url, flags |-> 0, quiet |-> FALSE, timeout |-> timeout]
    /\ pc' = "done"
    /\ stack' = <<>>
    /\ conns' = <<>>
    /\ outcome' = Raised("TypeError")
    /\ ncalls' = ncalls + 1
    /\ UNCHANGED <<use_qnichost, options, iana_queries, entry>>

\* The caller has its result; the client object stays, with use_qnichost,
\* and the caller keeps the options dict it passed.
Discard ==
  /\ pc = "done"
  /\ pc' = "idle"
  /\ api' = "none"
  /\ args' = NoArgs
  /\ stack' = <<>>
  /\ conns' = <<>>
  /\ outcome' = NoOutcome
  /\ entry' = NoEntry
  /\ UNCHANGED <<use_qnichost, options, iana_queries, ncalls>>

\* WhoisEntry.load(domain, text) on the text a lookup returned, as whois()
\* does with the text of whois_lookup.
LoadEntry ==
  /\ pc = "done"
  /\ outcome.kind = "text"
  /\ entry = NoEntry
  /\ entry' = load(args.query, outcome.text)
  /\ UNCHANGED <<api, pc, args, use_qnichost, options, stack, conns, outcome,
                 iana_queries, ncalls>>

Next ==
  \/ CallWhois
  \/ CallWhoisLookup
  \/ CallNicWhois
  \/ CallChooseServer
  \/ IanaConnect
  \/ IanaExchange
  \/ Connect
  \/ Exchange
  \/ Return
  \/ LoadEntry
  \/ Discard

Spec == Init /\ [][Next]_vars

\* ----------------------------------------------------- parser on its own

\* A registry's notice that the caller's quota is used up (DENIC's wording).
QuotaLine ==
  Line("% Error", "55000000002 Connection refused; access control limit exceeded")

\* The not-found sentinels of WhoisEntry.load, WhoisEntry.__init__ and WhoisCom;
\* WhoisDe's is the line "Status: free".
NoServerLine == Line("notice", "No whois server is known for this kind of object.")
NoTldServerLine ==
  Line("notice", "This TLD has no whois server, but you can access the whois database at")
NoMatchLine == Line("notice", "No match for \"")

\* The lines of the texts handed to WhoisEntry.load.
ParseLines ==
  { Line("Registrar", "GoDaddy"), Line("Registrar", "NameCheap"),
    Line("Registrar", "GODADDY"), Line("Registrar", " "),
    Line("Name Server", "ns1.example"), Line("Name Server", "NS1.EXAMPLE"),
    Line("Name Server", "ns2.example"),
    Line("Updated Date", "2020-01-02"), Line("Updated Date", "tomorrow"),
    Line("Updated Date", "12345"),
    Line("Status", "free"), NoMatchLine, NoTldServerLine, NoServerLine, QuotaLine }

MaxLines == 3

ParseTexts == UNION {[1..n -> ParseLines] : n \in 0..MaxLines}

\* A caller that holds a text and the domain it was asked for.
InitParse ==
  /\ api = "whois_lookup"
  /\ pc = "done"
  /\ \E domain \in {"example.com", "example.de"} :
       args = [NoArgs EXCEPT !.query = domain]
  /\ use_qnichost = FALSE
  /\ options = [whoishost |-> NoneVal, country |-> NoneVal, held |-> FALSE]
  /\ stack = <<>>
  /\ conns = <<>>
  /\ \E lines \in ParseTexts : outcome = Returned(lines)
  /\ iana_queries = [t \in Tlds |-> [sent |-> 0, answered |-> 0]]
  /\ ncalls = 1
  /\ entry = NoEntry

SpecParse == InitParse /\ [][LoadEntry]_vars

\* ------------------------------------------------------ WhoisCl on its own

\* The lines of the texts handed to WhoisEntry.load for a .cl domain.
ClLines ==
  { Line("registrar name", "NIC Chile"), Line("registrar name", "NIC Chile CLT"),
    Line("Creation date", "2006-08-29 21:00:52 CLST"),
    Line("Creation date", "2006-08-29 21:00:52"),
    Line("Expiration date", "20240101"),
    Line("Name server", "ns1.example"), NoMatchLine }

ClTexts == UNION {[1..n -> ClLines] : n \in 0..MaxLines}

\* A caller that holds the text a lookup of a .cl domain returned.
InitCl ==
  /\ api = "whois_lookup"
  /\ pc = "done"
  /\ args = [NoArgs EXCEPT !.query = "example.cl"]
  /\ use_qnichost = FALSE
  /\ options = [whoishost |-> NoneVal, country |-> NoneVal, held |-> FALSE]
  /\ stack = <<>>
  /\ conns = <<>>
  /\ \E lines \in ClTexts : outcome = Returned(lines)
  /\ iana_queries = [t \in Tlds |-> [sent |-> 0, answered |-> 0]]
  /\ ncalls = 1
  /\ entry = NoEntry

SpecCl == InitCl /\ [][LoadEntry]_vars

\* ------------------------------------------------------ WhoisPl on its own

\* The matches in the texts handed to WhoisEntry.load for a .pl domain: blocks
\* of one or two name servers, a registrar, a renewal date, the sentinel.
PlLines ==
  { Block("nameservers", <<"ns1.example", "ns2.example", "", "">>),
    Block("nameservers", <<"ns2.example", "NS1.EXAMPLE", "", "">>),
    Block("nameservers", <<"ns1.example", "", "", "">>),
    Line("REGISTRAR", "NameCheap"),
    Line("renewal date", "2020-01-02"),
    Line("notice", "No information available about domain name") }

PlTexts == UNION {[1..n -> PlLines] : n \in 0..MaxLines}

\* A caller that holds the text a lookup of a .pl domain returned.
InitPl ==
  /\ api = "whois_lookup"
  /\ pc = "done"
  /\ args = [NoArgs EXCEPT !.query = "example.pl"]
  /\ use_qnichost = FALSE
  /\ options = [whoishost |-> NoneVal, country |-> NoneVal, held |-> FALSE]
  /\ stack = <<>>
  /\ conns = <<>>
  /\ \E lines \in PlTexts : outcome = Returned(lines)
  /\ iana_queries = [t \in Tlds |-> [sent |-> 0, answered |-> 0]]
  /\ ncalls = 1
  /\ entry = NoEntry

SpecPl == InitPl /\ [][LoadEntry]_vars

\* ------------------------------------------------- date casts on their own

\* The texts given to cast_date.
CastTexts ==
  { "2020-01-02", "01-02-2020", "02-jan-2020", "02-may-2020",
    "2007-01-26T19:10:31Z", "2000-08-22 18:55:20Z",
    "tomorrow", "2020-13-45", "before aug-1996", "before 2001" }

\* A caller about to call datetime_parse(s) or cast_date(s, dayfirst, yearfirst).
InitDate ==
  /\ \/ /\ api = "datetime_parse"
        /\ \E s \in DateTexts : args = [s |-> s, dayfirst |-> FALSE, yearfirst |-> FALSE]
     \/ /\ api = "cast_date"
        /\ \E s \in CastTexts, dayfirst \in BOOLEAN, yearfirst \in BOOLEAN :
             args = [s |-> s, dayfirst |-> dayfirst, yearfirst |-> yearfirst]
  /\ pc = "called"
  /\ use_qnichost = FALSE
  /\ options = [whoishost |-> NoneVal, country |-> NoneVal, held |-> FALSE]
  /\ stack = <<>>
  /\ conns = <<>>
  /\ outcome = NoOutcome
  /\ iana_queries = [t \in Tlds |-> [sent |-> 0, answered |-> 0]]
  /\ ncalls = 1
  /\ entry = NoEntry

\* What the caller gets: the datetime, or WhoisUnknownDateFormatError with its
\* message.
DateOutcome(s, result) ==
  IF result = UnknownDateFormat(s)
    THEN [kind |-> "exc", val |-> "WhoisUnknownDateFormatError",
          text |-> <<Line("Unknown date format", s)>>]
    ELSE [kind |-> "value", val |-> result, text |-> <<>>]

DatetimeParse ==
  /\ pc = "called"
  /\ api = "datetime_parse"
  /\ pc' = "done"
  /\ outcome' = DateOutcome(args.s, datetime_parse(args.s))
  /\ UNCHANGED <<api, args, use_qnichost, options, stack, conns, iana_queries, ncalls,
                 entry>>

CastDate ==
  /\ pc = "called"
  /\ api = "cast_date"
  /\ pc' = "done"
  /\ outcome' = DateOutcome(args.s, cast_date(args.s, args.dayfirst, args.yearfirst))
  /\ UNCHANGED <<api, args, use_qnichost, options, stack, conns, iana_queries, ncalls,
                 entry>>

NextDate ==
  \/ DatetimeParse
  \/ CastDate

SpecDate == InitDate /\ [][NextDate]_vars

\* ------------------------------------------------ extract_domain on its own

\* A url is the sequence of its pieces: "://", "/", "." and the runs of
\* characters between them.

\* The non-comment lines of data/public_suffix_list.dat the model keeps: the
\* list names "co.za" but not "za", and "s3.amazonaws.com" but not
\* "amazonaws.com".
suffixes ==
  { <<"com">>, <<"net">>, <<"au">>, <<"com", ".", "au">>, <<"co", ".", "za">>,
    <<"s3", ".", "amazonaws", ".", "com">> }

\* re.sub("^.*://", "", url): the match is greedy, so all up to the last
\* "://" goes.
StripToLastScheme(url) ==
  LET at == {i \in DOMAIN url : url[i] = "://"}
  IN  IF at = {} THEN url ELSE SubSeq(url, Max(at) + 1, Len(url))

\* url.split("/")[0]
BeforeFirstSlash(url) ==
  LET at == {i \in DOMAIN url : url[i] = "/"}
  IN  IF at = {} THEN url ELSE SubSeq(url, 1, Min(at) - 1)

\* str.lower
LowerUrl(url) == [i \in DOMAIN url |-> Lower(url[i])]

\* url.split("."): the sections, each the concatenation of its pieces.
RECURSIVE SplitDots(_, _, _)
SplitDots(url, i, section) ==
  IF i > Len(url)
    THEN <<section>>
    ELSE IF url[i] = "."
      THEN <<section>> \o SplitDots(url, i + 1, "")
      ELSE SplitDots(url, i + 1, section \o url[i])

\* section.encode("utf-8") + domain, after domain = b"." + domain when domain
\* is not empty.
Prepend(section, domain) ==
  (IF section = "" THEN <<>> ELSE <<section>>)
    \o (IF domain # <<>> THEN <<".">> \o domain ELSE <<>>)

HasDot(domain) == \E i \in DOMAIN domain : domain[i] = "."

\* The loop "for section in reversed(split_url)" from the k-th section from
\* the end on, with domain built so far.
RECURSIVE SuffixLoop(_, _, _)
SuffixLoop(split_url, k, domain) ==
  IF k > Len(split_url)
    THEN domain
    ELSE LET n == Len(split_url)
             grown == Prepend(split_url[n - k + 1], domain)
             second_order_tld == <<split_url[n - 1], ".", split_url[n]>>
         IN  IF grown \notin suffixes
               THEN IF ~HasDot(grown) /\ n >= 2
                      THEN IF second_order_tld \notin suffixes
                             THEN grown
                             ELSE SuffixLoop(split_url, k + 1, grown)
                      ELSE grown
               ELSE SuffixLoop(split_url, k + 1, grown)

\* extract_domain(url) for a url that is not an IP address.
extract_domain(url) ==
  SuffixLoop(SplitDots(LowerUrl(BeforeFirstSlash(StripToLastScheme(url))), 1, ""),
             1, <<>>)

\* The parts of the urls given to extract_domain: a scheme or none, the
\* labels of the host, a path or none.
UrlSchemes == {<<>>, <<"http", "://">>, <<"HTTPS", "://">>}

UrlHosts ==
  { <<"google", "com">>, <<"WWW", "Google", "com", "au">>, <<"google", "co", "za">>,
    <<"abc", "def", "com">>, <<"bucket", "s3", "amazonaws", "com">>,
    <<"com", "au">>, <<"a", "b", "za">>, <<"localhost">> }

UrlPaths ==
  { <<>>, <<"/", "tos", ".", "html">>,
    <<"/", "r?u=http", "://", "b", ".", "net", "/">> }

\* The labels joined with ".".
RECURSIVE Dotted(_)
Dotted(labels) ==
  IF Len(labels) <= 1
    THEN labels
    ELSE <<labels[1], ".">> \o Dotted(Tail(labels))

\* A caller about to call extract_domain(url).
InitExtract ==
  /\ api = "extract_domain"
  /\ pc = "called"
  /\ \E scheme \in UrlSchemes, host \in UrlHosts, path \in UrlPaths :
       args = [scheme |-> scheme, host |-> host, path |-> path,
               url |-> scheme \o Dotted(host) \o path]
  /\ use_qnichost = FALSE
  /\ options = [whoishost |-> NoneVal, country |-> NoneVal, held |-> FALSE]
  /\ stack = <<>>
  /\ conns = <<>>
  /\ outcome = NoOutcome
  /\ iana_queries = [t \in Tlds |-> [sent |-> 0, answered |-> 0]]
  /\ ncalls = 1
  /\ entry = NoEntry

ExtractDomain ==
  /\ pc = "called"
  /\ api = "extract_domain"
  /\ pc' = "done"
  /\ outcome' = [kind |-> "domain", val |-> NoneVal, text |-> extract_domain(args.url)]
  /\ UNCHANGED <<api, args, use_qnichost, options, stack, conns, iana_queries, ncalls,
                 entry>>

SpecExtract == InitExtract /\ [][ExtractDomain]_vars

\* ----------------------------------------------------------- properties

\* The lines of a text that give a non-empty value for a field.
MatchesOf(regex, attr, lines) ==
  { i \in DOMAIN lines : /\ lines[i].label \in LabelsOf(regex, attr)
                         /\ Preprocess(NoneVal, attr, lines[i].val) # "" }

\* The value of the last of them.
LastMatch(regex, attr, lines) ==
  Preprocess(NoneVal, attr, lines[Max(MatchesOf(regex, attr, lines))].val)

\* The field table load uses for a domain of the model.
RegexOf(domain) == IF LastLabel(domain) = "de" THEN DeRegex ELSE BaseRegex

ClientCall == api \in {"nic_whois", "whois_lookup"}

Referrals == {i \in DOMAIN conns : conns[i].role = "referral"}

\* C1: for the scalar fields (registrar, whois_server, referral_url) the record
\* holds the last value matched in the text, whatever matched before it.
C1_LastMatchWins ==
  (pc = "done" /\ entry.kind = "record") =>
    \A a \in ScalarAttrs \cap Attrs(RegexOf(args.query)) :
      MatchesOf(RegexOf(args.query), a, outcome.text) # {} =>
        entry.fields[a] = One(LastMatch(RegexOf(args.query), a, outcome.text))

C3_FailedReferralAddsNothing ==
  \A i \in Referrals :
    (pc = "done" /\ conns[i].got = "error" /\ outcome.kind = "text" /\ Len(conns) = i
       /\ conns[i - 1].role = "first")
      => outcome.text = conns[i - 1].text

\* C4 as stated: one call of NICClient.whois opens at most two connections.
C4_AtMostTwoConnections ==
  Cardinality({i \in DOMAIN conns : conns[i].role # "iana"}) <= 2

\* C4: one call of NICClient.whois follows at most one referral, and the hop
\* it refers to runs with flags 0; the repeated queries after a server's
\* '=xxx' notice are further connections.
C4_AtMostOneReferral ==
  /\ Cardinality(Referrals) <= 1
  /\ \A k \in DOMAIN stack :
       conns[stack[k].conn].role = "referral" => stack[k].flags = 0

C4_Witness ==
  /\ pc = "done"
  /\ Cardinality(Referrals) = 1
  /\ Cardinality({i \in DOMAIN conns : conns[i].role # "iana"}) >= 3
  /\ outcome.kind = "text"

\* C5: a referral is followed only to a host other than the one just queried.
C5_ReferralHostDiffers ==
  \A i \in Referrals : conns[i].host # conns[i - 1].host

\* C6: a lookup through whois() with the built-in client that received no
\* bytes ends with WhoisError "Whois command returned no output".
C6_NoOutputRaisesWhoisError ==
  (pc = "done" /\ api = "whois" /\ \A i \in DOMAIN conns : conns[i].got # "bytes")
    => outcome = Raised("WhoisError")

\* C7: after a first hop and a referral hop that both answered, a scalar
\* field of the parsed record holds the referral hop's value where both hops
\* give one, and the other fields hold the values of both hops in order.
C7_ReferralValueWins ==
  (/\ pc = "done"
   /\ entry.kind = "record"
   /\ Len(conns) = 2
   /\ conns[1].role = "first" /\ conns[1].got = "bytes"
   /\ conns[2].role = "referral" /\ conns[2].got = "bytes")
    => \A a \in Attrs(RegexOf(args.query)) :
         LET regex == RegexOf(args.query)
             both == conns[1].text \o conns[2].text
         IN  IF a \in ScalarAttrs
               THEN (/\ MatchesOf(regex, a, conns[1].text) # {}
                     /\ MatchesOf(regex, a, conns[2].text) # {})
                      => entry.fields[a] = One(LastMatch(regex, a, conns[2].text))
               ELSE entry.fields[a]
                      = Collapse(a, Accepted(NoneVal, a, LabelsOf(regex, a), both, 1, <<>>))

\* C8: every socket a call of NICClient.whois opens has the timeout the
\* caller passed.
C8_CallerTimeoutEverywhere ==
  api = "nic_whois" => \A i \in DOMAIN conns : conns[i].timeout = args.timeout

\* C9: choose_server for a domain under "com" gives a host and opens no
\* connection.
C9_ComIsStatic ==
  (api = "choose_server" /\ LastLabel(args.query) = "com")
    => /\ conns = <<>>
       /\ pc = "done" => outcome.kind = "host"

\* C10: once whois.iana.org has answered for a TLD, no later resolution of
\* that TLD sends it a query.
C10_IanaAskedOncePerTld ==
  [][\A t \in Tlds : iana_queries[t].answered >= 1
                       => iana_queries'[t].sent = iana_queries[t].sent]_vars

\* The call reached findwhois_iana.
AskedIana == conns # <<>> /\ conns[1].role = "iana"

\* C11: choose_server never raises: every call ends with a host, whatever
\* the domain and whatever whois.iana.org does.
C11_ChooseServerNeverRaises ==
  (api = "choose_server" /\ pc = "done") => outcome.kind = "host"

C13_UnmappedTldGivesQnicHost ==
  (/\ api = "choose_server"
   /\ pc = "done"
   /\ choose_server(args.query).kind = "iana"
   /\ outcome.kind = "host")
    => outcome.val = LastLabel(args.query) \o QNICHOST_TAIL

\* The matches of a field whose value, ignoring case, no earlier match gave.
FirstSeen(regex, attr, lines) ==
  { i \in MatchesOf(regex, attr, lines) :
      \A j \in MatchesOf(regex, attr, lines) :
        j < i => Lower(Preprocess(NoneVal, attr, lines[j].val)) # Lower(Preprocess(NoneVal, attr, lines[i].val)) }

\* The k-th smallest element of a set of positions.
Kth(S, k) == CHOOSE i \in S : Cardinality({j \in S : j < i}) = k - 1

\* Their values, in the order of the text.
FirstSeenValues(regex, attr, lines) ==
  [k \in 1..Cardinality(FirstSeen(regex, attr, lines)) |->
     Preprocess(NoneVal, attr, lines[Kth(FirstSeen(regex, attr, lines), k)].val)]

WithCopy(lines, i, j) ==
  SubSeq(lines, 1, j) \o <<lines[i]>> \o SubSeq(lines, j + 1, Len(lines))

\* The lines of a text that some field pattern matches.
MatchingLines(regex, lines) ==
  {i \in DOMAIN lines : \E a \in Attrs(regex) : lines[i].label \in LabelsOf(regex, a)}

\* C15: no two values kept for a field are equal ignoring case, and a text
\* with one of its matching lines repeated further on gives what the text
\* gives.
C15_DedupIgnoringCase ==
  (pc = "done" /\ entry # NoEntry) =>
    /\ entry.kind = "record" =>
         \A a \in Attrs(RegexOf(args.query)) :
           \A i, j \in DOMAIN entry.fields[a].vals :
             i # j => Lower(entry.fields[a].vals[i]) # Lower(entry.fields[a].vals[j])
    /\ \A i \in MatchingLines(RegexOf(args.query), outcome.text) :
         \A j \in i..Len(outcome.text) :
           load(args.query, WithCopy(outcome.text, i, j)) = entry

C15_Witness ==
  /\ pc = "done"
  /\ args.query = "example.com"
  /\ outcome.text = << Line("Name Server", "ns1.example"),
                       Line("Name Server", "ns2.example"),
                       Line("Name Server", "NS1.EXAMPLE") >>
  /\ entry.kind = "record"
  /\ entry.fields["name_servers"] = Many(<<"ns1.example", "ns2.example">>)

\* The text matches a not-found sentinel that applies to the domain: load's,
\* WhoisEntry.__init__'s, or the one of the class load selects.
SentinelIn(domain, lines) ==
  \/ lines = <<NoServerLine>>
  \/ \E i \in DOMAIN lines : lines[i] = NoTldServerLine
  \/ /\ LastLabel(domain) = "com"
     /\ \E i \in DOMAIN lines : lines[i] = NoMatchLine
  \/ /\ LastLabel(domain) = "de"
     /\ \E i \in DOMAIN lines : lines[i] = Line("Status", "free")

\* Some line of the text makes _preprocess raise for a date field.
BadDateIn(domain, lines) ==
  \E a \in Attrs(RegexOf(domain)) : \E i \in DOMAIN lines :
    /\ lines[i].label \in LabelsOf(RegexOf(domain), a)
    /\ PreprocessRaises(NoneVal, a, lines[i].val)

\* C16: load raises WhoisDomainNotFoundError whenever the text matches a
\* not-found sentinel that applies to the domain, whatever the field patterns
\* would have made of the text: no record, and no error of the extraction.
C16_SentinelBeforeExtraction ==
  (pc = "done" /\ entry # NoEntry /\ SentinelIn(args.query, outcome.text))
    => entry = NotFound

C16_Witness ==
  /\ pc = "done"
  /\ args.query = "example.com"
  /\ outcome.text = << Line("Registrar", "GoDaddy"), Line("Updated Date", "tomorrow"),
                       NoTldServerLine >>
  /\ BadDateIn(args.query, outcome.text)
  /\ entry = NotFound

UnknownDate ==
  [kind |-> "exc", exc |-> "WhoisUnknownDateFormatError", fields |-> <<>>]

\* C17: a text in which the registry says the quota is used up makes load
\* raise WhoisQuotaExceededError.
C17_QuotaErrorRaised ==
  (/\ pc = "done"
   /\ entry # NoEntry
   /\ \E i \in DOMAIN outcome.text : outcome.text[i] = QuotaLine)
    => entry = [kind |-> "exc", exc |-> "WhoisQuotaExceededError", fields |-> <<>>]

\* The lines a date field's pattern matches whose text fits no format of
\* KNOWN_FORMATS.
UnfitDates(domain, lines) ==
  { i \in DOMAIN lines :
      \E a \in Attrs(RegexOf(domain)) :
        /\ IsDateAttr(a)
        /\ lines[i].label \in LabelsOf(RegexOf(domain), a)
        /\ FormatsFor(Strip(lines[i].val)) = {} }

C18_GeneralParseGivesAware ==
  (/\ api = "cast_date"
   /\ pc = "done"
   /\ dp_parse(args.s, args.dayfirst, args.yearfirst) # "ParserError")
    => outcome = [kind |-> "value",
                  val |-> default_tzinfo(dp_parse(args.s, args.dayfirst, args.yearfirst),
                                         "+00:00"),
                  text |-> <<>>]

\* C19: datetime_parse returns what strptime gives for the first format of
\* KNOWN_FORMATS, in the order of the list, that accepts the text, whatever
\* later formats would give; when none accepts it, it raises
\* WhoisUnknownDateFormatError with the text in the message.
C19_FirstFormatWins ==
  (api = "datetime_parse" /\ pc = "done") =>
    IF \E i \in DOMAIN KNOWN_FORMATS : strptime(args.s, KNOWN_FORMATS[i]) # "ValueError"
      THEN \E i \in DOMAIN KNOWN_FORMATS :
             /\ strptime(args.s, KNOWN_FORMATS[i]) # "ValueError"
             /\ \A j \in 1..(i - 1) : strptime(args.s, KNOWN_FORMATS[j]) = "ValueError"
             /\ outcome = [kind |-> "value", val |-> strptime(args.s, KNOWN_FORMATS[i]),
                           text |-> <<>>]
      ELSE outcome = [kind |-> "exc", val |-> "WhoisUnknownDateFormatError",
                      text |-> <<Line("Unknown date format", args.s)>>]

C19_Witness ==
  /\ api = "datetime_parse"
  /\ pc = "done"
  /\ args.s = "2007-01-26T19:10:31Z"
  /\ \E i, j \in DOMAIN KNOWN_FORMATS :
       /\ i < j
       /\ strptime(args.s, KNOWN_FORMATS[i]) = "2007-01-26 19:10:31"
       /\ strptime(args.s, KNOWN_FORMATS[j]) = "2007-01-26 19:10:31+00:00"
  /\ outcome.val = "2007-01-26 19:10:31"

\* What _preprocess would give with the registered transform applied to the
\* trimmed value before the date/non-date decision.
TransformFirst(data_preprocessor, attr, value) ==
  LET x == ApplyPreprocessor(data_preprocessor, Strip(value))
  IN  IF x # "" /\ ~IsDigit(x) /\ IsDateAttr(attr)
        THEN cast_date(x, FALSE, FALSE)
        ELSE x

\* C21: with a data_preprocessor registered (WhoisCl), every value kept for a
\* field is what its matched text gives when the transform is applied first,
\* before the date/non-date decision.
C21_TransformAppliedFirst ==
  (pc = "done" /\ entry.kind = "record" /\ LastLabel(args.query) = "cl") =>
    \A a \in Attrs(ClRegex) :
      \A k \in DOMAIN entry.fields[a].vals :
        \E i \in DOMAIN outcome.text :
          /\ outcome.text[i].label \in LabelsOf(ClRegex, a)
          /\ entry.fields[a].vals[k] = TransformFirst("WhoisCl", a, outcome.text[i].val)

\* C22: a whois_lookup called with options["whoishost"] given (here
\* whois.denic.de, no country) sends its query to that host, on a client that
\* served earlier lookups as on a fresh one.
C22_ExplicitHostIsQueried ==
  (/\ api = "whois_lookup"
   /\ options.whoishost = DENICHOST
   /\ options.country = NoneVal)
    => /\ conns # <<>>
       /\ conns[1].host = DENICHOST

\* The host of the url given, lowercased, and its last k labels joined.
HostLabels == [i \in DOMAIN args.host |-> Lower(args.host[i])]

LabelSuffix(labels, k) == Dotted(SubSeq(labels, Len(labels) - k + 1, Len(labels)))

\* The last k labels are a listed public suffix; the last label counts as one
\* when the last two labels together are listed.
Listed(labels, k) ==
  \/ LabelSuffix(labels, k) \in suffixes
  \/ /\ k = 1
     /\ Len(labels) >= 2
     /\ LabelSuffix(labels, 2) \in suffixes

\* The longest listed public suffix of the host and one more label (the host
\* itself when there is no more label).
LongestListedPlusOne(labels) ==
  LET listed == {k \in 1..Len(labels) : Listed(labels, k)}
      longest == IF listed = {} THEN 0 ELSE Max(listed)
  IN  LabelSuffix(labels, IF longest < Len(labels) THEN longest + 1 ELSE longest)

\* C23: for a url that is not an IP address, extract_domain returns the
\* shortest label suffix of the lowercased host that is not a listed public
\* suffix, which is the longest listed public suffix plus one label; and
\* extract_domain of the result is the result.
C23_ShortestUnlistedSuffix ==
  (api = "extract_domain" /\ pc = "done") =>
    LET unlisted == {k \in 1..Len(HostLabels) : ~Listed(HostLabels, k)}
    IN  /\ unlisted # {} => outcome.text = LabelSuffix(HostLabels, Min(unlisted))
        /\ outcome.text = LongestListedPlusOne(HostLabels)
        /\ extract_domain(outcome.text) = outcome.text

Requeries == {i \in DOMAIN conns : conns[i].role = "requery"}

\* C24: a call of NICClient.whois ends by returning a text, also when the
\* server answers every query, the repeated ones included, with the notice
\* 'with "=xxx"'.
C24_RequeryReturns ==
  (api = "nic_whois" /\ pc = "done" /\ Requeries # {}) => outcome.kind = "text"

\* The first-hop answers of the call that name a host to refer to.
NamesReferral(i) ==
  /\ conns[i].role = "first"
  /\ conns[i].got = "bytes"
  /\ ~HasEqx(conns[i].text)
  /\ findwhois_server(conns[i].text, conns[i].host, args.query) \notin {NoneVal, ""}

\* C25: a whois_lookup given a dict that held neither whoishost nor country
\* when it was first passed (whoishost is then the default the client wrote
\* into it) and flags without WHOIS_QUICK follows the referral its first hop
\* names, in the second call with that dict as in the first.
C25_SameDictSameQueries ==
  (/\ api = "whois_lookup"
   /\ pc = "done"
   /\ options.whoishost = NICHOST
   /\ options.country = NoneVal
   /\ ~HasQuick(args.flags))
    => \A i \in DOMAIN conns :
         NamesReferral(i) => (i < Len(conns) /\ conns[i + 1].role = "referral")

\* C26: a socket is open only while the call that created it is connecting
\* or exchanging on it: once NICClient.whois or findwhois_iana has returned or
\* raised, on success and on a socket error alike, its socket is closed.
C26_SocketsClosed ==
  \A i \in DOMAIN conns :
    conns[i].open =>
      \/ /\ conns[i].role = "iana"
         /\ pc \in {"iana_connect", "iana_exchange"}
      \/ \E k \in DOMAIN stack :
           /\ stack[k].conn = i
           /\ stack[k].pc \in {"connect", "exchange"}

C28_QueryLineByHost ==
  \A k \in DOMAIN stack :
    LET sent == conns[stack[k].conn].line
        host == stack[k].hostname
        query == stack[k].query
    IN  sent # <<>> =>
          /\ sent[4] = "\r\n"
          /\ host = "whois.denic.de" => sent = <<"-T dn,ace -C UTF-8 ", query, "", "\r\n">>
          /\ host = "whois.dk-hostmaster.dk"
               => sent = <<" --show-handles ", query, "", "\r\n">>
          /\ host = "whois.jprs.jp" => sent = <<"", query, "/e", "\r\n">>
          /\ host = "ru.whois-servers.net"
               => sent = <<IF stack[k].many_results THEN "=" ELSE "", query, "", "\r\n">>
          /\ host \notin {"whois.denic.de", "whois.dk-hostmaster.dk", "whois.jprs.jp",
                          "ru.whois-servers.net"}
               => sent = <<"", query, "", "\r\n">>

C28_Witness ==
  /\ pc = "running"
  /\ Len(stack) = 2
  /\ stack[2].hostname = RuCountryHost
  /\ stack[2].many_results
  /\ conns[stack[1].conn].line = <<"", "example.com", "", "\r\n">>
  /\ conns[stack[2].conn].line = <<"=", "example.com", "", "\r\n">>

\* A text with each match replaced by one match per group, in group order;
\* and with each match replaced by its first non-empty group.
RECURSIVE PerGroup(_)
PerGroup(lines) ==
  IF lines = <<>>
    THEN <<>>
    ELSE [g \in DOMAIN Groups(lines[1]) |-> Line(lines[1].label, Groups(lines[1])[g])]
           \o PerGroup(Tail(lines))

FirstGroup(lines) ==
  [i \in DOMAIN lines |->
     LET filled == {g \in DOMAIN Groups(lines[i]) : Strip(Groups(lines[i])[g]) # ""}
     IN  Line(lines[i].label,
              IF filled = {} THEN "" ELSE Groups(lines[i])[Min(filled)])]

\* The shape parse gives a field that is not scalar-preferred.
ShapeOf(vals) ==
  IF Len(vals) = 0 THEN NoField
  ELSE IF Len(vals) = 1 THEN One(vals[1])
  ELSE Many(vals)

\* C29 as stated: each match of a pattern with several groups gives the field
\* one value, its first non-empty group.
C29_FirstGroupOnly ==
  (pc = "done" /\ entry.kind = "record" /\ LastLabel(args.query) = "pl") =>
    entry.fields["name_servers"]
      = ShapeOf(FirstSeenValues(PlRegex, "name_servers", FirstGroup(outcome.text)))

\* C29: each match of a pattern with several groups gives the field every
\* non-empty group it captured, trimmed, in group order, each subject to the
\* duplicate test like the value of a match of its own.
C29_EveryGroupContributes ==
  (pc = "done" /\ entry.kind = "record" /\ LastLabel(args.query) = "pl") =>
    entry.fields["name_servers"]
      = ShapeOf(FirstSeenValues(PlRegex, "name_servers", PerGroup(outcome.text)))

C29_Witness ==
  /\ pc = "done"
  /\ args.query = "example.pl"
  /\ outcome.text = << Block("nameservers", <<"ns2.example", "NS1.EXAMPLE", "", "">>),
                       Block("nameservers", <<"ns1.example", "ns2.example", "", "">>) >>
  /\ entry.kind = "record"
  /\ entry.fields["name_servers"] = Many(<<"ns2.example", "NS1.EXAMPLE">>)

\* C30: choose_server returns the .id registry's host only for a domain whose
\* last label is "id", the .hr registry's host only for one whose last label
\* is "hr", and None for a domain of fewer than two labels.
C30_RegistryByLastLabel ==
  (api = "choose_server" /\ pc = "done" /\ outcome.kind = "host") =>
    /\ outcome.val = PANDIHOST => LastLabel(args.query) = "id"
    /\ outcome.val = HR_HOST => LastLabel(args.query) = "hr"
    /\ Len(Labels(args.query)) < 2 => outcome.val = NoneVal

====
